---- MODULE Spec2Model ----
(***************************************************************************)
(* ESPnetSTMDSampModel (espnet2/st/espnet_model_md_samp.py): construction, *)
(* encode and the forward pass of the multi-decoder speech-translation     *)
(* model with CTC sampling.                                                *)
(*                                                                         *)
(* Conventions.  A weight, a sampling rate and the random draw are exact   *)
(* multiples of 1/Scale and are stored as their numerator (asr_weight = 1  *)
(* with Scale = 4 is 0.25).  A loss produced by a sub-module is a natural  *)
(* number; loss_asr is stored times Scale and loss times Scale * Scale, so *)
(* the products of the source stay integers.  A tensor of token ids is a   *)
(* sequence of rows, a row a sequence of integers.  The sub-modules        *)
(* (frontend .. postencoder, encoder, decoders, CTC, criteria) are opaque: *)
(* what they return is an input of the call, what they are given is        *)
(* recorded in the result.  forward and encode write no attribute of the   *)
(* model, so a behaviour is one construction followed by one call.         *)
(***************************************************************************)
EXTENDS Integers, Sequences, FiniteSets

VARIABLES args, model, call, out

vars == <<args, model, call, out>>

\* ---------------------------------------------------------------- bounds
Scale == 4
MaxLoss == 1
Batch == 2
MaxT == 3
MaxTok == 2
MaxSrcLen == 2

\* ------------------------------------------------------ program constants
Blank == 0
Pad == -1

None == "None"

Max(S) == CHOOSE x \in S : \A y \in S : y <= x

Range(f) == {f[i] : i \in DOMAIN f}

\* ------------------------------------------------------------ constructor
\* Attributes assigned by lines 85-121, before the asr_decoder assertion.
EarlyAttrs ==
    {"sos", "eos", "src_sos", "src_eos", "vocab_size", "src_vocab_size",
     "ignore_id", "asr_weight", "mt_weight", "mtlalpha", "ctc_sample_rate",
     "token_list", "src_token_list", "speech_attn", "frontend", "specaug",
     "normalize", "preencoder", "postencoder", "encoder", "encoder_mt",
     "decoder", "criterion_st", "criterion_asr"}

\* Attributes assigned by lines 130-151 on every successful construction.
LateAttrs ==
    {"asr_decoder", "mt_error_calculator", "asr_error_calculator",
     "extract_feats_in_collect_stats"}

\* Lines 79-81: the line of the first failing range assertion, 0 if none.
\* Faulty variant of RangeAssert: asr_weight = 0 is let through.
RangeAssertMut(a) ==
    IF ~(0 <= a.asr_weight /\ a.asr_weight < Scale) THEN 79
    ELSE IF ~(0 <= a.mt_weight /\ a.mt_weight < Scale) THEN 80
    ELSE IF ~(0 <= a.mtlalpha /\ a.mtlalpha < Scale) THEN 81
    ELSE 0

RangeAssert(a) ==
    IF ~(0 < a.asr_weight /\ a.asr_weight < Scale) THEN 79
    ELSE IF ~(0 <= a.mt_weight /\ a.mt_weight < Scale) THEN 80
    ELSE IF ~(0 <= a.mtlalpha /\ a.mtlalpha < Scale) THEN 81
    ELSE 0

\* The attribute self.ctc exists only when mtlalpha > 0 (lines 128-129).
CtcAttr(a) == IF a.mtlalpha > 0 THEN {"ctc"} ELSE {}

\* __init__: the model object a constructor call leaves behind.  `set` is the
\* set of attribute names assigned so far, `attr` their values.
Construct(a) ==
    IF RangeAssert(a) # 0
    THEN [status |-> "AssertionError", line |-> RangeAssert(a),
          set |-> {}, attr |-> a]
    ELSE IF a.asr_decoder = None
    THEN [status |-> "AssertionError", line |-> 124,
          set |-> EarlyAttrs, attr |-> a]
    ELSE [status |-> "ok", line |-> 151,
          set |-> EarlyAttrs \cup CtcAttr(a) \cup LateAttrs, attr |-> a]

\* Constructor arguments: weights W, rates R, asr_decoder D, speech_attn S and
\* the optional stages F (each "None" or present).
CtorArgs(AW, MW, MA, R, D, S, F) ==
    [asr_weight : AW, mt_weight : MW, mtlalpha : MA, ctc_sample_rate : R,
     asr_decoder : D, speech_attn : S,
     frontend : F, specaug : F, normalize : F, preencoder : F,
     postencoder : F]

Weights == (0 - 1) .. (Scale + 1)
Rates == 0 .. Scale
Present == {"present"}
Optional == {None, "present"}

\* ------------------------------------------------- CTC greedy transcript
\* Line 203: [x[0] for x in groupby(ys)], runs of equal ids become one id.
RECURSIVE GroupBy(_)
GroupBy(ys) ==
    IF Len(ys) <= 1 THEN ys
    ELSE IF ys[1] = ys[2] THEN GroupBy(Tail(ys))
    ELSE <<ys[1]>> \o GroupBy(Tail(ys))

\* Line 204: filter(lambda x: x != 0, ys).
RemoveBlank(ys) == SelectSeq(ys, LAMBDA x : x # Blank)

\* Line 207: [x for x in src_text[i] if x != -1].
RemovePad(ys) == SelectSeq(ys, LAMBDA x : x # Pad)

\* Faulty variant of GreedyRow: blanks are dropped before runs are merged.
GreedyRowMut(ys, src_row) ==
    LET hyp == GroupBy(RemoveBlank(ys))
    IN  IF Len(hyp) = 0 THEN RemovePad(src_row) ELSE hyp

\* Lines 203-207 for one batch row: merge, drop blanks, fall back to the
\* reference row when nothing is left.
GreedyRow(ys, src_row) ==
    LET hyp == RemoveBlank(GroupBy(ys))
    IN  IF Len(hyp) = 0 THEN RemovePad(src_row) ELSE hyp

\* Lines 202-207: the unpadded ys_hat, a list of rows.
CtcGreedy(ctc_argmax, src_text) ==
    [i \in 1 .. Len(ctc_argmax) |-> GreedyRow(ctc_argmax[i], src_text[i])]

\* Line 208: [len(x) for x in ys_hat].
RowLens(rows) == [i \in 1 .. Len(rows) |-> Len(rows[i])]

\* Line 210: pad_sequence(ys_hat, batch_first=True, padding_value=-1).
PadSequence(rows, v) ==
    LET width == Max(Range(RowLens(rows)) \cup {0})
    IN  [i \in 1 .. Len(rows) |->
            rows[i] \o [j \in 1 .. (width - Len(rows[i])) |-> v]]

\* Lines 193-195: x[:, : lengths.max()].
Truncate(rows, lengths) ==
    LET width == Max(Range(lengths) \cup {0})
    IN  [i \in 1 .. Len(rows) |->
            SubSeq(rows[i], 1, IF width < Len(rows[i]) THEN width
                                ELSE Len(rows[i]))]

\* ------------------------------------------------------------------ encode
\* A stage that is applied appends its name to the history of the features
\* (each stage maps the pair feats, feats_lengths to a new pair).
Stage(cond, name) == IF cond THEN <<name>> ELSE <<>>

\* Lines 357-374: _extract_feats.
ExtractFeats(m) == Stage(m.attr.frontend # None, "frontend")

\* Faulty variant of SpecaugApplies: the training flag is not read.
SpecaugAppliesMut(m, training) == m.attr.specaug # None

\* Line 324.
SpecaugApplies(m, training) == m.attr.specaug # None /\ training

\* Lines 310-355.  e.out_batch is encoder_out.size(0), e.out_T is
\* encoder_out.size(1) and e.out_lens_max is encoder_out_lens.max(), as the
\* last stage returned them.
EncodeOp(m, training, speech_batch, e) ==
    LET feats == ExtractFeats(m)
                   \o Stage(SpecaugApplies(m, training), "specaug")
                   \o Stage(m.attr.normalize # None, "normalize")
                   \o Stage(m.attr.preencoder # None, "preencoder")
                   \o <<"encoder">>
                   \o Stage(m.attr.postencoder # None, "postencoder")
    IN  IF e.out_batch # speech_batch
        THEN [status |-> "AssertionError", line |-> 346, trace |-> feats]
        ELSE IF ~(e.out_T <= e.out_lens_max)
        THEN [status |-> "AssertionError", line |-> 350, trace |-> feats]
        ELSE [status |-> "returned", line |-> 355, trace |-> feats]

\* ----------------------------------------------------------------- forward
NoStats ==
    [loss |-> 0, loss_asr |-> 0, loss_st |-> 0, acc_asr |-> None,
     acc |-> None, cer_ctc |-> None, cer |-> None, wer |-> None,
     bleu |-> None]

NoEnc == [out_batch |-> 0, out_T |-> 0, out_lens_max |-> 0]

NoCall ==
    [op |-> None, training |-> FALSE, draw |-> 0, speech_batch |-> 0,
     text_batch |-> 0, src_text |-> <<>>, src_text_lengths |-> <<>>,
     enc |-> NoEnc, ctc_argmax |-> <<>>, loss_asr_att |-> 0,
     loss_asr_ctc |-> 0, loss_st_att |-> 0]

\* The result of a call: how it ended, the sub-modules called in order and
\* what each was given, and the values forward computed.
NoOut ==
    [status |-> "idle", line |-> 0, calls |-> <<>>, trace |-> <<>>,
     sampled |-> FALSE, ys_hat |-> <<>>, ys_hat_lens |-> <<>>,
     asr_ys_src |-> None, asr_ys_pad |-> <<>>, asr_ys_in_lens |-> <<>>,
     ctc_ys_src |-> None, mt_xs |-> None, mt_lengths |-> <<>>,
     st_memory |-> None, st_speech |-> None,
     asr_ctc_weight |-> 0, loss_asr |-> 0, loss_st |-> 0, loss |-> 0,
     weight |-> 0, stats |-> NoStats]

Raise(o, exc, line) == [o EXCEPT !.status = exc, !.line = line]

Running(o) == o.status = "running"

\* Faulty variant of DoCtcSample: the comparison is not strict.
DoCtcSampleMut(m, c) == c.draw <= m.attr.ctc_sample_rate

\* Line 200: random.uniform(0, 1) < self.ctc_sample_rate.
DoCtcSample(m, c) == c.draw < m.attr.ctc_sample_rate

\* Lines 201, 242, 257: self.training and do_ctc_sample.
Sampling(m, c) == c.training /\ DoCtcSample(m, c)

\* Lines 172-188: the batch sizes of speech, text and src_text agree.
CheckShapes(c, o) ==
    IF c.speech_batch # c.text_batch THEN Raise(o, "AssertionError", 174)
    ELSE IF c.text_batch # Len(c.src_text)
            \/ Len(c.src_text) # Len(c.src_text_lengths)
    THEN Raise(o, "AssertionError", 184)
    ELSE o

\* Line 198.
EncodeStep(m, c, o) ==
    LET r == EncodeOp(m, c.training, c.speech_batch, c.enc)
        o1 == [o EXCEPT !.calls = @ \o <<"encode">>, !.trace = r.trace]
    IN  IF r.status = "returned" THEN o1 ELSE Raise(o1, r.status, r.line)

\* Lines 415-445: _calc_asr_att_loss; ys_in_lens = ys_pad_lens + 1.
CalcAsrAttLoss(o, src, ys_pad, ys_pad_lens) ==
    [o EXCEPT !.calls = @ \o <<"asr_decoder">>,
              !.asr_ys_src = src,
              !.asr_ys_pad = ys_pad,
              !.asr_ys_in_lens = [i \in DOMAIN ys_pad_lens |-> ys_pad_lens[i] + 1]]

\* Lines 200-231: the transcript given to the ASR decoder.
AsrBranch(m, c, o) ==
    LET src_text == Truncate(c.src_text, c.src_text_lengths)
        o1 == [o EXCEPT !.calls = @ \o <<"random.uniform">>]
    IN  IF Sampling(m, c)
        THEN IF "ctc" \notin m.set
             THEN Raise([o1 EXCEPT !.sampled = TRUE], "AttributeError", 202)
             ELSE LET rows == CtcGreedy(c.ctc_argmax, src_text)
                      o2 == [o1 EXCEPT !.calls = @ \o <<"ctc.argmax">>,
                                       !.sampled = TRUE,
                                       !.ys_hat_lens = RowLens(rows),
                                       !.ys_hat = PadSequence(rows, Pad)]
                  IN  CalcAsrAttLoss(o2, "ys_hat", o2.ys_hat, o2.ys_hat_lens)
        ELSE CalcAsrAttLoss(o1, "src_text", src_text, c.src_text_lengths)

\* Lines 233-239 with 447-462: the CTC loss is taken against src_text.
CtcBranch(m, c, o) ==
    IF m.attr.mtlalpha > 0
    THEN IF "ctc" \notin m.set THEN Raise(o, "AttributeError", 455)
         ELSE [o EXCEPT !.calls = @ \o <<"ctc">>, !.ctc_ys_src = "src_text"]
    ELSE o

\* Faulty variant of DecAsrLengths: the reference lengths in both branches.
DecAsrLengthsMut(m, c, o) ==
    [i \in DOMAIN c.src_text_lengths |-> c.src_text_lengths[i] + 1]

\* Lines 242-245.
DecAsrLengths(m, c, o) ==
    IF Sampling(m, c)
    THEN [i \in DOMAIN o.ys_hat_lens |-> o.ys_hat_lens[i] + 1]
    ELSE [i \in DOMAIN c.src_text_lengths |-> c.src_text_lengths[i] + 1]

\* Lines 241-246: the MT encoder reads the ASR decoder's hidden states.
MtEncoder(m, c, o) ==
    [o EXCEPT !.calls = @ \o <<"encoder_mt">>,
              !.mt_xs = "hs_dec_asr",
              !.mt_lengths = DecAsrLengths(m, c, o)]

\* Lines 248-254 with 376-413: speech_out and speech_lens are bound only when
\* speech_attn is set, and are read by the call in either case.
StDecoder(m, c, o) ==
    IF ~m.attr.speech_attn THEN Raise(o, "UnboundLocalError", 253)
    ELSE [o EXCEPT !.calls = @ \o <<"decoder">>,
                   !.st_memory = "encoder_mt_out",
                   !.st_speech = "encoder_out"]

\* Faulty variant of AsrCtcWeight: mtlalpha in both branches.
AsrCtcWeightMut(m, c) == m.attr.mtlalpha

\* Lines 257-260 (1.0 is Scale / Scale).
AsrCtcWeight(m, c) == IF Sampling(m, c) THEN Scale ELSE m.attr.mtlalpha

\* Line 239: loss_asr_ctc is 0 when the CTC branch is off.
LossAsrCtc(m, c) == IF m.attr.mtlalpha > 0 THEN c.loss_asr_ctc ELSE 0

\* Lines 262-267, times Scale.
LossAsr(w, loss_asr_ctc, loss_asr_att) ==
    IF w = 0 THEN Scale * loss_asr_att
    ELSE w * loss_asr_ctc + (Scale - w) * loss_asr_att

\* Faulty variant of Loss: loss_st enters with weight 1.
LossDropMut(m, loss_st, loss_asr) ==
    Scale * Scale * loss_st + m.attr.asr_weight * loss_asr

\* Faulty variant of Loss: an extra term weighted by mt_weight.
LossMtMut(m, loss_st, loss_asr) ==
    (Scale - m.attr.asr_weight) * Scale * loss_st
        + m.attr.asr_weight * loss_asr
        + m.attr.mt_weight * Scale * loss_st

\* Lines 268-271, times Scale * Scale (loss_asr comes in times Scale).
Loss(m, loss_st, loss_asr) ==
    (Scale - m.attr.asr_weight) * Scale * loss_st
        + m.attr.asr_weight * loss_asr

\* Lines 273-283 (loss_asr is a tensor, never a float, so the loss_st entry
\* is loss_st).  The error calculators exist (report_cer, report_wer and
\* report_bleu default to True) and give a metric in eval mode only
\* (lines 407, 439, 459); the sampling branch drops the ASR metrics
\* (lines 220-222).
Stats(m, c, o) ==
    [loss |-> o.loss, loss_asr |-> o.loss_asr, loss_st |-> o.loss_st,
     acc_asr |-> IF o.sampled THEN None ELSE "acc_asr_att",
     acc |-> "acc_st_att",
     cer_ctc |-> IF m.attr.mtlalpha > 0 /\ ~c.training
                 THEN "cer_asr_ctc" ELSE None,
     cer |-> IF o.sampled \/ c.training THEN None ELSE "cer_asr_att",
     wer |-> IF o.sampled \/ c.training THEN None ELSE "wer_asr_att",
     bleu |-> IF c.training THEN None ELSE "bleu_st_att"]

\* Lines 256-287.
LossStep(m, c, o) ==
    LET w == AsrCtcWeight(m, c)
        loss_asr == LossAsr(w, LossAsrCtc(m, c), c.loss_asr_att)
        o1 == [o EXCEPT !.asr_ctc_weight = w,
                        !.loss_st = c.loss_st_att,
                        !.loss_asr = loss_asr,
                        !.loss = Loss(m, c.loss_st_att, loss_asr)]
    IN  [o1 EXCEPT !.stats = Stats(m, c, o1),
                   !.weight = c.speech_batch,
                   !.status = "returned",
                   !.line = 287]

\* A step runs only while no exception has been raised.
ThenEncode(m, c, o) == IF Running(o) THEN EncodeStep(m, c, o) ELSE o

ThenAsr(m, c, o) == IF Running(o) THEN AsrBranch(m, c, o) ELSE o

ThenCtc(m, c, o) == IF Running(o) THEN CtcBranch(m, c, o) ELSE o

ThenMt(m, c, o) == IF Running(o) THEN MtEncoder(m, c, o) ELSE o

ThenSt(m, c, o) == IF Running(o) THEN StDecoder(m, c, o) ELSE o

ThenLoss(m, c, o) == IF Running(o) THEN LossStep(m, c, o) ELSE o

\* Lines 153-287: forward, step by step; a raised exception ends the call.
ForwardOp(m, c) ==
    ThenLoss(m, c,
      ThenSt(m, c,
        ThenMt(m, c,
          ThenCtc(m, c,
            ThenAsr(m, c,
              ThenEncode(m, c,
                CheckShapes(c, [NoOut EXCEPT !.status = "running"])))))))

\* ------------------------------------------------------------ input sets
\* src_text as the collate function pads it: row i holds lens[i] token ids
\* and then ignore_id up to the common width.
SrcText(lens) ==
    [i \in 1 .. Batch |->
        [j \in 1 .. MaxSrcLen |->
            IF j <= lens[i] THEN 1 + ((i + j) % MaxTok) ELSE Pad]]

SrcLens == [1 .. Batch -> 0 .. MaxSrcLen]

ExampleLens == [i \in 1 .. Batch |-> 1 + (i % MaxSrcLen)]

\* What ctc.argmax returns for one utterance: one id per encoder frame.
CtcRows == [1 .. MaxT -> Blank .. MaxTok]

AllBlank == [t \in 1 .. MaxT |-> Blank]

\* Batches of CTC outputs: one row is arbitrary, the others are all blank.
CtcBatches ==
    {[i \in 1 .. Batch |-> IF i = k THEN r ELSE AllBlank] :
        k \in 1 .. Batch, r \in CtcRows}

ExampleCtc ==
    [i \in 1 .. Batch |-> [t \in 1 .. MaxT |-> IF t = i THEN 1 ELSE Blank]]

Losses == 0 .. MaxLoss

BatchSizes == {Batch, Batch + 1}

\* What the encoder stack returns: the batch size and the two lengths the
\* assertions of lines 346-353 compare.
EncCases ==
    {[out_batch |-> b, out_T |-> t, out_lens_max |-> 1] :
        b \in BatchSizes, t \in {1, 2}}

EncAll == [out_batch : BatchSizes, out_T : {1, 2}, out_lens_max : {1, 2}]

\* ---------------------------------------------------------------- actions
\* The sub-modules forward(m, c) gets to call; the outputs of the others are
\* never produced.
Reaches(m, c, name) == name \in Range(ForwardOp(m, c).calls)

Pick(cond, S, default) == IF cond THEN S ELSE {default}

\* One call of forward (lines 153-287) on a constructed model.
Forward(LensSet, CtcSet, LossSet) ==
    /\ model.status = "ok"
    /\ out.status = "idle"
    /\ \E training \in BOOLEAN, lens \in LensSet,
          sb \in BatchSizes, tb \in BatchSizes :
         LET c0 == [NoCall EXCEPT !.op = "forward",
                                  !.training = training,
                                  !.speech_batch = sb,
                                  !.text_batch = tb,
                                  !.src_text = SrcText(lens),
                                  !.src_text_lengths = lens]
         IN  \E e \in Pick(Reaches(model, c0, "encode"), EncCases, NoEnc) :
               LET c1 == [c0 EXCEPT !.enc = e]
               IN  \E draw \in Pick(Reaches(model, c1, "random.uniform"),
                                    0 .. Scale, 0) :
                     LET c2 == [c1 EXCEPT !.draw = draw]
                     IN  \E y \in Pick(Reaches(model, c2, "ctc.argmax"),
                                       CtcSet, <<>>),
                            la \in Pick(Reaches(model, c2, "asr_decoder"),
                                        LossSet, 0),
                            lc \in Pick(Reaches(model, c2, "ctc"),
                                        LossSet, 0),
                            ls \in Pick(Reaches(model, c2, "decoder"),
                                        LossSet, 0) :
                           /\ call' = [c2 EXCEPT !.ctc_argmax = y,
                                                 !.loss_asr_att = la,
                                                 !.loss_asr_ctc = lc,
                                                 !.loss_st_att = ls]
                           /\ out' = ForwardOp(model, call')
    /\ UNCHANGED <<args, model>>

\* One call of encode (lines 310-355) on a constructed model.
Encode ==
    /\ model.status = "ok"
    /\ out.status = "idle"
    /\ \E training \in BOOLEAN, sb \in BatchSizes, e \in EncAll :
         LET r == EncodeOp(model, training, sb, e)
         IN  /\ call' = [NoCall EXCEPT !.op = "encode",
                                       !.training = training,
                                       !.speech_batch = sb,
                                       !.enc = e]
             /\ out' = [NoOut EXCEPT !.status = r.status,
                                     !.line = r.line,
                                     !.calls = <<"encode">>,
                                     !.trace = r.trace]
    /\ UNCHANGED <<args, model>>

\* ---------------------------------------------------------- specifications
InitWith(ArgSet) ==
    /\ args \in ArgSet
    /\ model = Construct(args)
    /\ call = NoCall
    /\ out = NoOut

\* Every constructor call, then forward on one batch with every loss value.
Init ==
    InitWith(CtorArgs(Weights, Weights, Weights, Rates, Optional, BOOLEAN,
                      Present))

ForwardLoss == Forward({ExampleLens}, {ExampleCtc}, Losses)

Next == ForwardLoss

Spec == Init /\ [][Next]_vars

\* Valid weights, then forward on every batch of transcripts and CTC outputs.
InitRoute ==
    InitWith(CtorArgs({1}, {0}, {0, 1}, {0, Scale}, Present, BOOLEAN, Present))

ForwardRoute == Forward(SrcLens, CtcBatches, {0})

NextRoute == ForwardRoute

SpecRoute == InitRoute /\ [][NextRoute]_vars

\* Every combination of optional stages, then encode.
InitEncode ==
    InitWith(CtorArgs({1}, {0}, {0}, {0}, Present, {FALSE}, Optional))

NextEncode == Encode

SpecEncode == InitEncode /\ [][NextEncode]_vars

\* ----------------------------------------------------------------- claims
Returned == call.op = "forward" /\ out.status = "returned"

Called(name) == name \in Range(out.calls)

\* The sampling condition of the claims, read off the inputs of the call.
DrawBelowRate == call.training /\ call.draw < args.ctc_sample_rate

\* C1: every forward call that returns yields
\* loss = (1 - asr_weight) * loss_st + asr_weight * loss_asr, with loss_st
\* the ST decoder's loss, and both weights strictly positive.
C1_LossIsWeightedSum ==
    Returned =>
        /\ out.loss_st = call.loss_st_att
        /\ out.loss = (Scale - args.asr_weight) * Scale * out.loss_st
                        + args.asr_weight * out.loss_asr
        /\ args.asr_weight > 0
        /\ Scale - args.asr_weight > 0
        /\ out.stats.loss = out.loss

C1_Witness ==
    /\ Returned
    /\ out.sampled
    /\ call.loss_st_att = 1
    /\ call.loss_asr_ctc = 0
    /\ 2 * args.asr_weight < Scale

\* C2: the ASR decoder is given the CTC greedy transcript exactly when the
\* model is training and the draw is strictly below ctc_sample_rate; in
\* every other case it is given the ground-truth src_text.
C2_SampleIffTrainingAndDraw ==
    Called("asr_decoder") =>
        /\ out.asr_ys_src \in {"ys_hat", "src_text"}
        /\ (out.asr_ys_src = "ys_hat") <=> DrawBelowRate
        /\ out.asr_ys_src = "ys_hat" => out.asr_ys_pad = out.ys_hat
        /\ out.asr_ys_src = "src_text" =>
              out.asr_ys_pad = Truncate(call.src_text, call.src_text_lengths)
        /\ (~call.training \/ args.ctc_sample_rate = 0) =>
              out.asr_ys_src = "src_text"

C2_Witness ==
    /\ Called("asr_decoder")
    /\ out.asr_ys_src = "ys_hat"
    /\ call.training
    /\ call.draw + 1 = args.ctc_sample_rate

\* Position of a sub-module in the order of calls (0 when not called).
CallPos(name) ==
    IF Called(name) THEN CHOOSE i \in DOMAIN out.calls : out.calls[i] = name
    ELSE 0

NonPadCount(row) == Cardinality({j \in DOMAIN row : row[j] # Pad})

\* C3: the data flows ASR decoder -> hidden states -> MT encoder -> ST
\* decoder, and the lengths given to the MT encoder are the ys_in_lens of the
\* ASR decoder call: the length of the transcript it was fed plus one; the
\* CTC weight is 1.0 exactly when that transcript is the sampled one.
C3_BranchesAgree ==
    /\ Called("encoder_mt") =>
          /\ 0 < CallPos("asr_decoder")
          /\ CallPos("asr_decoder") < CallPos("encoder_mt")
          /\ out.mt_xs = "hs_dec_asr"
          /\ out.mt_lengths = out.asr_ys_in_lens
          /\ \A i \in 1 .. Batch :
                out.mt_lengths[i] = NonPadCount(out.asr_ys_pad[i]) + 1
          /\ out.asr_ys_src = "ys_hat" =>
                \A i \in 1 .. Batch :
                    out.mt_lengths[i] = out.ys_hat_lens[i] + 1
          /\ out.asr_ys_src = "src_text" =>
                \A i \in 1 .. Batch :
                    out.mt_lengths[i] = call.src_text_lengths[i] + 1
    /\ Called("decoder") =>
          /\ CallPos("encoder_mt") < CallPos("decoder")
          /\ out.st_memory = "encoder_mt_out"
    /\ Returned =>
          /\ Called("decoder")
          /\ (out.asr_ctc_weight = Scale) <=> (out.asr_ys_src = "ys_hat")

C3_Witness ==
    /\ Returned
    /\ out.asr_ys_src = "ys_hat"
    /\ \E i \in 1 .. Batch : out.ys_hat_lens[i] # call.src_text_lengths[i]

\* The range conditions of the claim, on the constructor's arguments.
InRange(a) ==
    /\ 0 < a.asr_weight /\ a.asr_weight < Scale
    /\ 0 <= a.mt_weight /\ a.mt_weight < Scale
    /\ 0 <= a.mtlalpha /\ a.mtlalpha < Scale

\* C4: construction succeeds only if the three weights are in their ranges
\* and asr_decoder is given; a weight outside its range fails with an
\* assertion error before any attribute is set.
C4_ConstructorRanges ==
    /\ model.status = "ok" => InRange(args) /\ args.asr_decoder # None
    /\ model.status \in {"ok", "AssertionError"}
    /\ ~InRange(args) =>
          /\ model.status = "AssertionError"
          /\ model.line \in {79, 80, 81}
          /\ model.set = {}

C4_Witness ==
    /\ args.asr_weight = 0
    /\ InRange([args EXCEPT !.asr_weight = 1])
    /\ args.asr_decoder # None
    /\ model.status = "AssertionError"
    /\ model.set = {}

\* C5: without sampling loss_asr = mtlalpha * ctc + (1 - mtlalpha) * att
\* (att alone when mtlalpha = 0); with sampling loss_asr is the CTC loss
\* alone, and the CTC loss is always taken against src_text.
C5_AsrLossInterpolation ==
    /\ Returned /\ ~DrawBelowRate =>
          /\ out.asr_ctc_weight = args.mtlalpha
          /\ args.mtlalpha > 0 =>
                out.loss_asr = args.mtlalpha * call.loss_asr_ctc
                                 + (Scale - args.mtlalpha) * call.loss_asr_att
          /\ args.mtlalpha = 0 => out.loss_asr = Scale * call.loss_asr_att
    /\ Returned /\ DrawBelowRate =>
          /\ out.asr_ctc_weight = Scale
          /\ Called("ctc")
          /\ out.loss_asr = Scale * call.loss_asr_ctc
    /\ Called("ctc") => out.ctc_ys_src = "src_text"

C5_Witness ==
    /\ Returned
    /\ DrawBelowRate
    /\ call.loss_asr_att = 1
    /\ call.loss_asr_ctc = 0
    /\ out.loss_asr = 0

\* The entries of row at the positions K, in order.
AtPositions(row, K) ==
    [k \in 1 .. Cardinality(K) |->
        row[CHOOSE j \in K : Cardinality({i \in K : i <= j}) = k]]

\* A frame survives when it is not blank and differs from the frame before.
Survivors(row) ==
    {j \in DOMAIN row : row[j] # Blank /\ (j = 1 \/ row[j] # row[j - 1])}

NonPadPositions(row) == {j \in DOMAIN row : row[j] # Pad}

\* C6: row i of the sampled transcript is the argmax sequence with runs
\* merged first and blanks removed afterwards, or row i of src_text without
\* padding when that is empty; ys_hat_lens counts the non-padding tokens of
\* the rows padded with -1 and is >= 1 when src_text_lengths[i] >= 1.
C6_GreedyTranscript ==
    Called("ctc.argmax") =>
        \A i \in 1 .. Batch :
            LET hyp == AtPositions(call.ctc_argmax[i],
                                   Survivors(call.ctc_argmax[i]))
                ref == AtPositions(call.src_text[i],
                                   NonPadPositions(call.src_text[i]))
                want == IF Len(hyp) = 0 THEN ref ELSE hyp
            IN  /\ out.ys_hat_lens[i] = Len(want)
                /\ SubSeq(out.ys_hat[i], 1, Len(want)) = want
                /\ \A j \in DOMAIN out.ys_hat[i] :
                      j > Len(want) => out.ys_hat[i][j] = Pad
                /\ out.ys_hat_lens[i] = NonPadCount(out.ys_hat[i])
                /\ call.src_text_lengths[i] >= 1 => out.ys_hat_lens[i] >= 1

C6_Witness ==
    /\ Called("ctc.argmax")
    /\ \E i \in 1 .. Batch :
          /\ SubSeq(call.ctc_argmax[i], 1, 3) = <<1, Blank, 1>>
          /\ out.ys_hat_lens[i] >= 2
          /\ SubSeq(out.ys_hat[i], 1, 2) = <<1, 1>>
    /\ \E i \in 1 .. Batch :
          /\ call.ctc_argmax[i] = AllBlank
          /\ call.src_text_lengths[i] = 1
          /\ out.ys_hat[i][1] # Pad
          /\ out.ys_hat[i][2] = Pad

StageOrder ==
    <<"frontend", "specaug", "normalize", "preencoder", "encoder",
      "postencoder">>

Rank(name) == CHOOSE k \in DOMAIN StageOrder : StageOrder[k] = name

Applied(name) == name \in Range(out.trace)

\* C7: encode applies frontend, specaug, normalize, preencoder, encoder,
\* postencoder in this order, each optional stage exactly when it is present
\* (specaug only when training as well), and returns only if the output
\* batch size equals the batch size of speech.
C7_EncodeStageOrder ==
    call.op = "encode" =>
        /\ \A i, j \in DOMAIN out.trace :
              i < j => Rank(out.trace[i]) < Rank(out.trace[j])
        /\ Applied("frontend") <=> args.frontend # None
        /\ Applied("specaug") <=> (args.specaug # None /\ call.training)
        /\ Applied("normalize") <=> args.normalize # None
        /\ Applied("preencoder") <=> args.preencoder # None
        /\ Applied("encoder")
        /\ Applied("postencoder") <=> args.postencoder # None
        /\ out.status = "returned" =>
              call.enc.out_batch = call.speech_batch

C7_Witness ==
    /\ call.op = "encode"
    /\ out.status = "returned"
    /\ ~call.training
    /\ args.specaug # None
    /\ args.normalize = None
    /\ out.trace = <<"frontend", "preencoder", "encoder", "postencoder">>

\* C8: whenever forward takes the sampling branch, self.ctc has been set by
\* the constructor, so self.ctc.argmax never fails on a missing attribute.
C8_CtcSetWhenSampling ==
    (call.op = "forward" /\ out.sampled) =>
        /\ "ctc" \in model.set
        /\ out.status # "AttributeError"

\* C9: the result of forward does not depend on mt_weight: a model built
\* with any other valid mt_weight gives, on the same call, the same loss and
\* the same stats; the constructor stores the validated mt_weight.
C9_LossIgnoresMtWeight ==
    /\ model.status = "ok" =>
          /\ "mt_weight" \in model.set
          /\ model.attr.mt_weight = args.mt_weight
    /\ (call.op = "forward" /\ out.status # "idle") =>
          \A w \in 0 .. (Scale - 1) :
              LET other == ForwardOp(Construct([args EXCEPT !.mt_weight = w]),
                                     call)
              IN  /\ other.status = out.status
                  /\ other.loss = out.loss
                  /\ other.stats = out.stats

C9_Witness ==
    /\ Returned
    /\ args.mt_weight > 0
    /\ call.loss_st_att > 0
    /\ out.loss > 0

====
